---- MODULE Spec2Model ----
(***************************************************************************)
(* Telenet API client: the request wrapper and the login state machine of  *)
(* TelenetClient (client.py), the catalog build of create_extra_sensors    *)
(* and the refresh cycle of TelenetDataUpdateCoordinator (__init__.py).    *)
(*                                                                         *)
(* request() and login() call each other, so the Python call stack is a    *)
(* variable: a sequence of frames, the innermost call last.  One step of   *)
(* the model is the code between two upstream HTTP exchanges or between a  *)
(* call and its return.                                                    *)
(***************************************************************************)
EXTENDS Integers, Sequences, FiniteSets, TLC

(* ------------------------------ constants ------------------------------ *)

CONNECTION_RETRY == 5

\* Deepest call stack (request and login frames) the interpreter allows; a
\* call beyond it raises RecursionError.
MaxDepth == 9

\* Number of distinct TOKEN-XSRF values the upstream hands out.
MaxToken == 2

None == 0

Tokens == 1..MaxToken

Statuses == {200, 302, 401, 403, 404, 500}

Expecteds == {None, 200}

(* ------------------------------ variables ------------------------------ *)

VARIABLES
    stack,          \* call stack of request()/login() frames
    resp,           \* response of the last session.get/post, until consumed
    ret,            \* value a finished call hands to its caller
    result,         \* outcome of the outermost call, as its caller sees it
    header,         \* session.headers["X-TOKEN-XSRF"]
    cookie,         \* session.cookies["TOKEN-XSRF"]
    user_details,   \* self.user_details
    all_products,   \* self.all_products, in insertion order
    new_products,   \* new_products of create_extra_sensors
    idx,            \* position of the loop of create_extra_sensors
    build,          \* how the catalog build ended
    product_types,  \* self.product_types, in order of discovery
    reg,            \* position of products() in the plan trees it registers
    requested,      \* upstream endpoints products() has asked in the refresh
    debug,          \* coordinator._debug
    data,           \* coordinator.data
    registry,       \* plan identifiers that have a device record
    reload,         \* a reload of the config entry is scheduled
    cycle,          \* what the last refresh cycle did
    util,           \* the call of clean_ipv6 or of the usage percentage
    total_cost,     \* self.total_cost
    bill,           \* the priced catalog of the last refresh and its usages
    addresses,      \* self.addresses
    _simdetails,    \* self._simdetails
    served          \* what the last refresh was given and what it returned

authVars == <<stack, resp, ret, result, header, cookie, user_details>>

buildVars ==
    <<all_products, new_products, idx, build, product_types, reg, requested>>

coordVars == <<debug, data, registry, reload, cycle>>

utilVars == <<util>>

costVars == <<total_cost, bill>>

cacheVars == <<addresses, _simdetails, served>>

vars == <<authVars, buildVars, coordVars, utilVars, costVars, cacheVars>>

(* ------------------------------- values -------------------------------- *)

NoResp == [status |-> 0, body |-> "", url |-> ""]

Response(status, body, url) == [status |-> status, body |-> body, url |-> url]

NoVal == [kind |-> "none", status |-> 0, body |-> "", url |-> ""]

FalseVal == [kind |-> "false", status |-> 0, body |-> "", url |-> ""]

RespVal(r) == [kind |-> "response", status |-> r.status, body |-> r.body, url |-> r.url]

JsonVal(v) == [kind |-> "json", status |-> v.status, body |-> v.body, url |-> v.url]

Idle == [kind |-> "idle", exc |-> "", msg |-> ""]

Pending == [kind |-> "pending", exc |-> "", msg |-> ""]

Returned(v) == [kind |-> "return", exc |-> v.kind, msg |-> ""]

Raised(exc, msg) == [kind |-> "raise", exc |-> exc, msg |-> msg]

RequestFrame(url, expected, retrying, left, return_false) ==
    [fn |-> "request", pc |-> "send", url |-> url, expected |-> expected,
     retrying |-> retrying, left |-> left, return_false |-> return_false,
     count |-> 0]

LoginFrame(pc, count) ==
    [fn |-> "login", pc |-> pc, url |-> "", expected |-> None,
     retrying |-> FALSE, left |-> 0, return_false |-> FALSE, count |-> count]

Top(s) == s[Len(s)]

Pop(s) == SubSeq(s, 1, Len(s) - 1)

SetTop(s, f) == [s EXCEPT ![Len(s)] = f]

(* ------------------------------ upstream ------------------------------- *)

\* Bodies the upstream sends: a challenge text of 1, 2 or 3 comma-separated
\* parts, a JSON error with a "code", user details with or without
\* "customer_number" / "scopes", other JSON, other text.
Bodies(url, status) ==
    IF url = "userdetails"
    THEN CASE status = 200 -> {"cust", "nocust", "noscopes"}
           [] status \in {401, 403} -> {"tok1", "tok2", "tok3"}
           [] OTHER -> {"json"}
    ELSE CASE status = 403 -> {"text", "code667", "codeOther"}
           [] OTHER -> {"json"}

Urls(url) ==
    CASE url = "authorize" -> {"openid/login", "plain"}
      [] url = "login.do" -> {"authentication_error", "plain"}
      [] OTHER -> {"plain"}

Responses(url) ==
    UNION {{Response(st, b, u) : b \in Bodies(url, st), u \in Urls(url)} :
           st \in Statuses}

(* ------------------------- effects of one step ------------------------- *)

Effect(s, v, res, h, ud) ==
    [stack |-> s, ret |-> v, result |-> res, header |-> h, user_details |-> ud]

\* The innermost call returns v to its caller.
Return(s, v, h, ud) ==
    Effect(Pop(s), v, IF Len(s) = 1 THEN Returned(v) ELSE Pending, h, ud)

\* No frame of the client catches an exception raised below it.
Raise(exc, msg, h, ud) == Effect(<<>>, NoVal, Raised(exc, msg), h, ud)

\* The innermost call calls: the new frames go on top.
Push(s, frames, h, ud) ==
    IF Len(s) + Len(frames) > MaxDepth
    THEN Raise("RecursionError", "", h, ud)
    ELSE Effect(s \o frames, NoVal, Pending, h, ud)

\* login() starts with its first userdetails poll (expected None,
\* return_false False).
LoginCall ==
    <<LoginFrame("challenge", 0),
      RequestFrame("userdetails", None, FALSE, CONNECTION_RETRY, FALSE)>>

(* ------------------------------ request() ------------------------------ *)

NotFound_Wrong(status) == status = 400

NotFound(status) == status = 404

\* A mismatch other than 403/401/500 on the first attempt is raised at once.
RaisesOnMismatch(status, left, retrying) ==
    status \notin {403, 401, 500} /\ left > 0 /\ ~retrying

\* response.text.find("code") != -1
HasCode(body) == body \in {"code667", "codeOther"}

\* response.json().get("code")
Code(body) == IF body = "code667" THEN "OCAPI-ERR-667" ELSE "OCAPI-ERR-OTHER"

SoftForbidden_Inverted(code) == code \in {"OCAPI-ERR-667"}

SoftForbidden(code) == code \notin {"OCAPI-ERR-667"}

\* Lines 130-135: the header follows the cookie jar, then the sentinel.
request_tail(s, v, c, ud) ==
    IF v.kind = "false" \/ (v.status >= 404 /\ Top(s).return_false)
    THEN Return(s, FalseVal, c, ud)
    ELSE Return(s, v, c, ud)

\* Lines 96-135 for the response r of the innermost request frame.
request_recv(s, r, h, c, ud) ==
    LET f == Top(s) IN
    IF f.expected # None /\ r.status # f.expected
    THEN IF NotFound(r.status)
         THEN Return(s, FalseVal, h, ud)
         ELSE IF RaisesOnMismatch(r.status, f.left, f.retrying)
         THEN Raise("TelenetServiceException", "status", h, ud)
         ELSE IF r.status = 403 /\ HasCode(r.body)
         THEN IF SoftForbidden(Code(r.body))
              THEN Return(s, FalseVal, h, ud)
              ELSE Raise("TelenetServiceException", "cause", h, ud)
         ELSE Push(SetTop(s, [f EXCEPT !.pc = "relogin"]), LoginCall, h, ud)
    ELSE request_tail(s, RespVal(r), c, ud)

\* Lines 127-129: login() returned, the same request is sent again.
request_retry(s, h, ud) ==
    LET f == Top(s) IN
    Push(SetTop(s, [f EXCEPT !.pc = "retry"]),
         <<RequestFrame(f.url, f.expected, TRUE, f.left - 1, TRUE)>>, h, ud)

(* ------------------------------- login() ------------------------------- *)

AlreadyAuthenticated_Wrong(status) == status = 204

AlreadyAuthenticated(status) == status = 200

\* len(response.text.split(",", maxsplit=2))
NumTokens(body) ==
    CASE body = "tok1" -> 1
      [] body = "tok2" -> 2
      [] body = "tok3" -> 3
      [] OTHER -> 1

TokenBudgetExceeded(count) == count > CONNECTION_RETRY

LandedOnLoginPage(v) == v.status = 200 /\ v.url = "openid/login"

AuthenticationError(url) == url = "authentication_error"

HasCustomerNumber(body) == body \in {"cust", "noscopes"}

HasScopes(body) == body = "cust"

\* Lines 151-169: the answer v of a userdetails poll.  token_fetch_count is
\* not read after the loop, so the frame keeps it only while the loop runs.
login_challenge(s, v, h, ud) ==
    LET f == Top(s) IN
    IF v.kind = "false"
    THEN Raise("AttributeError", "", h, ud)
    ELSE IF v.status > 404
    THEN Raise("TelenetServiceException", "status", h, ud)
    ELSE IF AlreadyAuthenticated(v.status)
    THEN Return(s, JsonVal(v), h, ud)
    ELSE IF v.status # 401 /\ v.status # 403
    THEN Raise("TelenetServiceException", "status", h, ud)
    ELSE IF TokenBudgetExceeded(f.count)
    THEN Raise("TelenetServiceException", "tokens", h, ud)
    ELSE IF NumTokens(v.body) # 2
    THEN Push(SetTop(s, [f EXCEPT !.count = f.count + 1]),
              <<RequestFrame("userdetails", None, FALSE, CONNECTION_RETRY, FALSE)>>,
              h, ud)
    ELSE Push(SetTop(s, [f EXCEPT !.count = 0, !.pc = "authorize"]),
              <<RequestFrame("authorize", None, FALSE, CONNECTION_RETRY, TRUE)>>,
              h, ud)

\* Lines 177-188: the answer v of the authorize request.
login_authorize(s, v, h, ud) ==
    IF v.kind = "false"
    THEN Raise("AttributeError", "", h, ud)
    ELSE IF ~LandedOnLoginPage(v)
    THEN Raise("TypeError", "", h, ud)
    ELSE Push(SetTop(s, [Top(s) EXCEPT !.pc = "form"]),
              <<RequestFrame("login.do", 200, FALSE, CONNECTION_RETRY, TRUE)>>,
              h, ud)

\* Lines 189-197: the answer v of the credentials form.
login_form(s, v, h, c, ud) ==
    IF v.kind = "false"
    THEN Raise("AttributeError", "", h, ud)
    ELSE IF AuthenticationError(v.url)
    THEN Raise("BadCredentialsException", "", h, ud)
    ELSE Push(SetTop(s, [Top(s) EXCEPT !.pc = "details"]),
              <<RequestFrame("userdetails", 200, FALSE, CONNECTION_RETRY, TRUE)>>,
              c, ud)

login_details_StoreFirst(s, v, h, ud) ==
    IF v.kind = "false"
    THEN Raise("AttributeError", "", h, ud)
    ELSE IF v.body \notin {"cust", "noscopes"}
    THEN Raise("BadCredentialsException", "", h, v.body)
    ELSE IF v.body # "cust"
    THEN Raise("KeyError", "", h, v.body)
    ELSE Return(s, JsonVal(v), h, v.body)

\* Lines 198-205: the user details fetched after the form.
login_details(s, v, h, ud) ==
    IF v.kind = "false"
    THEN Raise("AttributeError", "", h, ud)
    ELSE IF ~HasCustomerNumber(v.body)
    THEN Raise("BadCredentialsException", "", h, ud)
    ELSE IF ~HasScopes(v.body)
    THEN Raise("KeyError", "", h, v.body)
    ELSE Return(s, JsonVal(v), h, v.body)

login_resume(s, v, h, c, ud) ==
    CASE Top(s).pc = "challenge" -> login_challenge(s, v, h, ud)
      [] Top(s).pc = "authorize" -> login_authorize(s, v, h, ud)
      [] Top(s).pc = "form" -> login_form(s, v, h, c, ud)
      [] OTHER -> login_details(s, v, h, ud)

(* ------------------------------- actions ------------------------------- *)

Apply(e) ==
    /\ stack' = e.stack
    /\ ret' = e.ret
    /\ result' = e.result
    /\ header' = e.header
    /\ user_details' = e.user_details

\* A caller (a fetcher of the client) calls request(url, ..., expected, ...).
CallRequest ==
    /\ stack = <<>>
    /\ \E expected \in Expecteds, return_false \in BOOLEAN :
         stack' = <<RequestFrame("api", expected, FALSE, CONNECTION_RETRY,
                                 return_false)>>
    /\ resp' = NoResp
    /\ ret' = NoVal
    /\ result' = Pending
    /\ UNCHANGED <<header, cookie, user_details, buildVars, coordVars, utilVars, costVars, cacheVars>>

\* products() calls login().
CallLogin ==
    /\ stack = <<>>
    /\ stack' = LoginCall
    /\ resp' = NoResp
    /\ ret' = NoVal
    /\ result' = Pending
    /\ UNCHANGED <<header, cookie, user_details, buildVars, coordVars, utilVars, costVars, cacheVars>>

\* The innermost request frame sends its request; the session stores the
\* cookies of the answer; the code after the exchange runs up to the next
\* call, return or raise.
Exchange ==
    /\ stack # <<>>
    /\ Top(stack).fn = "request"
    /\ Top(stack).pc = "send"
    /\ \E r \in Responses(Top(stack).url), c \in {cookie} \cup Tokens :
         /\ resp' = r
         /\ cookie' = c
         /\ Apply(request_recv(stack, r, header, c, user_details))
    /\ UNCHANGED <<buildVars, coordVars, utilVars, costVars, cacheVars>>

\* A request frame gets control back from login() or from its retry.
ResumeRequest ==
    /\ stack # <<>>
    /\ Top(stack).fn = "request"
    /\ Top(stack).pc \in {"relogin", "retry"}
    /\ ret # NoVal
    /\ resp' = NoResp
    /\ cookie' = cookie
    /\ IF Top(stack).pc = "relogin"
       THEN Apply(request_retry(stack, header, user_details))
       ELSE Apply(request_tail(stack, ret, cookie, user_details))
    /\ UNCHANGED <<buildVars, coordVars, utilVars, costVars, cacheVars>>

\* A login frame gets the answer of the request it made.
ResumeLogin ==
    /\ stack # <<>>
    /\ Top(stack).fn = "login"
    /\ ret # NoVal
    /\ resp' = NoResp
    /\ cookie' = cookie
    /\ Apply(login_resume(stack, ret, header, cookie, user_details))
    /\ UNCHANGED <<buildVars, coordVars, utilVars, costVars, cacheVars>>

InitAuth ==
    /\ stack = <<>>
    /\ resp = NoResp
    /\ ret = NoVal
    /\ result = Idle
    /\ header = None
    /\ cookie = None
    /\ user_details = "empty"


(* ------------------- catalog build: create_extra_sensors --------------- *)

\* Products registered by one refresh.
MaxProducts == 2

\* Mailboxes of the account.
MaxMailboxes == 1

Types == {"internet", "dtv", "mobile", "telephone"}

\* The customer number of the account: no product identifier.
CustomerNumber == MaxProducts + 1

\* self.user_details.get("customer_number"): None while no login has
\* stored the user details.
customer_number(ud) == IF ud \in {"cust", "noscopes"} THEN CustomerNumber ELSE None

\* A TelenetProduct.  A registered product has suffix "" and its
\* product_identifier is id; a synthetic sensor has product_identifier
\* "<id> <suffix>" and product_key made of id, type and suffix.  named says
\* that the product_identifier starts with id; it is the suffix alone where
\* the code leaves the identifier of the key out of it.
Product(id, type, plan, priced, ignore) ==
    [id |-> id, type |-> type, plan |-> plan, priced |-> priced,
     ignore |-> ignore, suffix |-> "", extra |-> FALSE, named |-> TRUE]

Sensor(id, type, suffix, plan) ==
    [id |-> id, type |-> type, plan |-> plan, priced |-> FALSE,
     ignore |-> FALSE, suffix |-> suffix, extra |-> TRUE, named |-> TRUE]

\* A synthetic product whose product_identifier is its name alone.
Unnamed(x) == [x EXCEPT !.named = FALSE]

\* product_identifier of a TelenetProduct.
product_identifier(x) == <<IF x.named THEN x.id ELSE None, x.suffix>>

\* construct_extra_sensor: the identifier is the plan's when asked so.
construct_extra_sensor(p, suffix, use_plan_identifier) ==
    Sensor(IF use_plan_identifier THEN p.plan ELSE p.id, p.type, suffix, p.plan)

product_key(x) == <<x.id, x.type, x.suffix>>

\* dict.update with one entry: an entry with the same key is replaced where
\* it stands, a new key goes last.
Put(d, x) ==
    IF \E i \in DOMAIN d : product_key(d[i]) = product_key(x)
    THEN [i \in DOMAIN d |->
             IF product_key(d[i]) = product_key(x) THEN x ELSE d[i]]
    ELSE Append(d, x)

RECURSIVE Update(_, _)
Update(d, xs) ==
    IF xs = <<>> THEN d ELSE Update(Put(d, Head(xs)), Tail(xs))

\* add_product calls of one refresh.
MaxCalls == 4

\* What the upstream gives for the specurl of a product: no specurl, no
\* details (soft absence), details without or with a sales price above 0.
SpecUrls == {"none", "absent", "free", "priced"}

\* A node of a plan tree of the upstream product list.  cached: the client
\* holds the address of the product and the sim details (self.addresses,
\* self._simdetails) from an earlier fetch.
Nodes(ids) == [id : ids, type : Types, spec : SpecUrls, cached : BOOLEAN]

Ids(d) == {d[i].id : i \in DOMAIN d}

\* The identifiers a node can have: a registered one or the next new one.
NodeIds ==
    Ids(all_products) \cup ({Len(all_products) + 1} \ {MaxProducts + 1})

\* add_product_type: a new type goes last.
add_product_type(types, type) ==
    IF \E i \in DOMAIN types : types[i] = type
    THEN types ELSE Append(types, type)

\* What one call of add_product does: ret is what it returns, requests the
\* upstream requests it makes.
Added(exc, catalog, types, returned, requests) ==
    [exc |-> exc, catalog |-> catalog, types |-> types, ret |-> returned,
     requests |-> requests]

registered_Never(catalog, identifier) == FALSE

\* Line 218: identifier in self.all_products.
registered(catalog, identifier) == identifier \in Ids(catalog)

\* add_product (lines 213-268): a registered identifier returns False at
\* once; a new one fetches its details (an absent one makes line 226
\* raise), its sim detail and its address, and goes last in the catalog.
add_product(catalog, types, product, plan_identifier) ==
    LET requests ==
            (IF product.spec # "none" THEN {"product_details"} ELSE {})
            \cup (IF product.type = "mobile" /\ ~product.cached
                  THEN {"simdetails"} ELSE {})
            \cup (IF ~product.cached THEN {"address"} ELSE {})
    IN IF registered(catalog, product.id)
       THEN Added("", catalog, types, FALSE, {})
       ELSE IF product.spec = "absent"
       THEN Added("AttributeError", catalog, types, FALSE, {"product_details"})
       ELSE Added("",
                  Append(catalog,
                         Product(product.id, product.type, plan_identifier,
                                 product.spec = "priced", FALSE)),
                  add_product_type(types, product.type), TRUE, requests)

\* The endpoints products() is seen to ask: the product list (line 286),
\* the legacy payload (line 293) and the details of a product (lines 226,
\* 389 and 1495).
Endpoints == {"products", "api_v1_call", "product_details"}

\* Position of products() in the upstream list: plan and type are the
\* identifier and productType of the plan whose tree is open (line 302),
\* open says that options of a child are registered and the child is not
\* yet; calls counts the add_product calls; id, first, ret and requests
\* are the identifier of the last call, whether it was new, what the call
\* returned and what it requested.
RegIdle ==
    [plan |-> None, type |-> "", dtv_found |-> FALSE, open |-> FALSE,
     calls |-> 0, id |-> None, first |-> FALSE, ret |-> FALSE,
     requests |-> {}]

FetchNames ==
    {"product_details", "bill_cycles", "product_usage", "product_daily_usage",
     "modems", "modem_settings", "network_topology", "wireless_settings",
     "device_details", "mobile_usage", "mobile_line_usage",
     "mobile_bundle_usage"}

\* The fetches create_extra_sensors makes for a product of the type.
FetchesOf(type) ==
    {"product_details"} \cup
    CASE type = "internet" ->
            {"bill_cycles", "product_usage", "product_daily_usage", "modems",
             "modem_settings", "network_topology", "wireless_settings"}
      [] type = "dtv" -> {"bill_cycles", "product_usage", "device_details"}
      [] type = "mobile" ->
            {"mobile_usage", "mobile_line_usage", "mobile_bundle_usage"}
      [] OTHER -> {}

Buckets == {"data", "text", "voice"}

Sensors(xs) == [exc |-> "", at |-> "", sensors |-> xs]

Crash(exc, at) == [exc |-> exc, at |-> at, sensors |-> <<>>]

Opt(cond, xs) == IF cond THEN xs ELSE <<>>

\* Lines 396-408.
price_sensor(p) == Opt(p.priced, <<construct_extra_sensor(p, "price", FALSE)>>)

\* Lines 410-681.  fx[f] is FALSE when fetch f returned the sentinel False;
\* key: the wireless settings hold a networkKey.
internet_sensors(p, fx, key) ==
    IF ~fx["bill_cycles"]
    THEN Crash("AttributeError", "bill_cycles")
    ELSE IF ~fx["product_usage"]
    THEN Sensors(price_sensor(p))
    ELSE IF ~fx["product_daily_usage"]
    THEN Crash("TypeError", "product_daily_usage")
    ELSE IF fx["modems"] /\ ~fx["network_topology"]
    THEN Crash("TypeError", "network_topology")
    ELSE Sensors(
        price_sensor(p)
        \o <<construct_extra_sensor(p, "usage", FALSE),
             construct_extra_sensor(p, "daily usage", FALSE)>>
        \o Opt(fx["modems"],
               Opt(fx["modem_settings"],
                   <<construct_extra_sensor(p, "modem", FALSE)>>)
               \o <<construct_extra_sensor(p, "network", FALSE)>>
               \o Opt(fx["wireless_settings"],
                      <<construct_extra_sensor(p, "wi-fi", FALSE)>>
                      \o Opt(key,
                             <<construct_extra_sensor(p, "wi-fi qr", FALSE)>>))))

suppressed_Never(p) == FALSE

\* Line 686: product.product_ignore_extra_sensor.
suppressed(p) == p.ignore

\* Lines 682-744.  ndev: the number of devices of the device details.
dtv_sensors(p, fx, ndev) ==
    IF \/ suppressed(p)
       \/ ~fx["bill_cycles"]
       \/ ~fx["product_usage"]
       \/ ~fx["device_details"]
    THEN Sensors(price_sensor(p))
    ELSE Sensors(
        price_sensor(p)
        \o <<construct_extra_sensor(p, "usage", FALSE)>>
        \o [i \in 1..ndev |-> construct_extra_sensor(p, "dtv device", FALSE)])

\* name.lower().replace("text", "sms") of a bucket of a line
LineSuffix(b) == IF b = "text" THEN "sms" ELSE b

\* suffix of a bucket of a bundle: bucketType, "sms", "voice"
BundleSuffix(b) == IF b = "text" THEN "sms" ELSE b

\* suffix of a bucket of a line without bundle: "data", "sms", "sms"
TotalSuffix(b) == IF b = "data" THEN "data" ELSE "sms"

BucketOrder == <<"data", "text", "voice">>

BucketSuffix(path, b) ==
    CASE path = "bundle" -> BundleSuffix(b)
      [] path = "line" -> LineSuffix(b)
      [] OTHER -> TotalSuffix(b)

\* The sensors of the buckets in bs, in the order data, text, voice.
bucket_sensors(p, bs, path, use_plan_identifier) ==
    LET one(i) == Opt(BucketOrder[i] \in bs,
                      <<construct_extra_sensor(p, BucketSuffix(path, BucketOrder[i]),
                                               use_plan_identifier)>>)
    IN one(1) \o one(2) \o one(3)

\* Lines 745-1022.  bs: the buckets the usage lists (bundle, line) or the
\* buckets with a non-zero counter (line without bundle).
mobile_sensors(p, fx, bs) ==
    IF p.plan # p.id
    THEN IF ~fx["mobile_line_usage"] \/ ~fx["mobile_bundle_usage"]
         THEN Sensors(price_sensor(p))
         ELSE Sensors(
             price_sensor(p)
             \o <<construct_extra_sensor(p, "out of bundle", TRUE)>>
             \o bucket_sensors(p, bs, "bundle", TRUE)
             \o <<construct_extra_sensor(p, "out of bundle", FALSE)>>
             \o bucket_sensors(p, bs, "line", FALSE))
    ELSE IF ~fx["mobile_usage"]
         THEN Sensors(price_sensor(p))
         ELSE Sensors(
             price_sensor(p)
             \o <<construct_extra_sensor(p, "out of bundle", TRUE)>>
             \o bucket_sensors(p, bs, "total", FALSE))

\* One iteration of the loop of create_extra_sensors (lines 384-1022).
extra_sensors(p, fx, key, ndev, bs) ==
    IF ~fx["product_details"]
    THEN Crash("AttributeError", "product_details")
    ELSE CASE p.type = "internet" -> internet_sensors(p, fx, key)
           [] p.type = "dtv" -> dtv_sensors(p, fx, ndev)
           [] p.type = "mobile" -> mobile_sensors(p, fx, bs)
           [] OTHER -> Sensors(price_sensor(p))

\* Lines 1024-1132: current invoice, user details, customer, mailboxes.
customer_sensors(cn, nmail) ==
    <<Sensor(cn, "invoice", "current invoice", cn),
      Unnamed(Sensor(cn, "user", "user details", cn)),
      Unnamed(Sensor(cn, "customer", "customer", cn))>>
    \o [i \in 1..nmail |-> Sensor(CustomerNumber + i, "mailbox", "", cn)]

\* Devices of a dtv product.
MaxDevices == 2

\* Fetches of one product that return the sentinel.
MaxAbsent == 2

BuildIdle == [kind |-> "idle", exc |-> "", at |-> ""]

BuildFetching == [kind |-> "fetching", exc |-> "", at |-> ""]

BuildRunning == [kind |-> "running", exc |-> "", at |-> ""]

BuildDone == [kind |-> "done", exc |-> "", at |-> ""]

\* The refresh has returned the catalog of buildv1.
BuildDoneV1 == [kind |-> "done", exc |-> "", at |-> "buildv1"]

BuildRaised(exc, at) == [kind |-> "raise", exc |-> exc, at |-> at]

\* products() has returned the products present in the client.
BuildCached == [kind |-> "cached", exc |-> "", at |-> ""]

\* How the login() of products() ends (line 280): the session is already
\* authenticated and login returns at line 157, the login is done in full
\* and stores the user details at line 203, or it raises.
Logins == {"authenticated", "full", "failed"}

\* products(force_refresh=True), lines 280-285: a refresh logs in and
\* empties the catalog before it asks the upstream for the product list.
BeginRefresh ==
    /\ build.kind \in {"idle", "done", "raise", "cached"}
    /\ \E login \in Logins :
          IF login = "failed"
          THEN /\ build' = BuildRaised("BadCredentialsException", "login")
               /\ UNCHANGED <<all_products, new_products, product_types, reg,
                              idx, user_details, requested>>
          ELSE /\ user_details' = IF login = "full" THEN "cust" ELSE user_details
               /\ all_products' = <<>>
               /\ new_products' = <<>>
               /\ product_types' = <<>>
               /\ reg' = RegIdle
               /\ idx' = 1
               /\ requested' = {"products"}
               /\ build' = BuildFetching
    /\ UNCHANGED <<stack, resp, ret, result, header, cookie, coordVars, utilVars, costVars, cacheVars>>

\* Line 276: products() returns what the client holds.
cached(catalog, force_refresh) == Len(catalog) > 0 /\ ~force_refresh

\* products(force_refresh=False), lines 276-279: with products present the
\* call returns them and asks the upstream nothing.
CachedProducts ==
    /\ build.kind \in {"idle", "done", "raise", "cached"}
    /\ cached(all_products, FALSE)
    /\ build' = BuildCached
    /\ UNCHANGED <<all_products, new_products, idx, product_types, reg,
                   requested, authVars, coordVars, utilVars, costVars,
                   cacheVars>>

child_plan_Own(plan_identifier, product) == product.id

\* Lines 326 and 333: a child and an option are registered under the
\* identifier (and label) of the plan whose tree they are in.
child_plan(plan_identifier, product) == plan_identifier

\* One add_product call of products() for the node product under the plan
\* plan_identifier; r is reg with the position after the call.
Register(product, plan_identifier, r) ==
    LET o == add_product(all_products, product_types, product, plan_identifier)
    IN /\ reg.calls < MaxCalls
       /\ all_products' = o.catalog
       /\ product_types' = o.types
       /\ reg' = [r EXCEPT !.calls = reg.calls + 1, !.id = product.id,
                           !.first = ~registered(all_products, product.id),
                           !.ret = o.ret, !.requests = o.requests]
       /\ requested' = requested \cup (o.requests \cap Endpoints)
       /\ build' = IF o.exc # ""
                   THEN BuildRaised(o.exc, "product_details") ELSE build
       /\ UNCHANGED <<new_products, idx, authVars, coordVars, utilVars, costVars, cacheVars>>

\* Lines 301-310: the next plan of the upstream list is registered.
AddPlan ==
    /\ build.kind = "fetching"
    /\ reg.plan = None
    /\ \E a_product \in Nodes(NodeIds) :
          Register(a_product, a_product.id,
                   [reg EXCEPT !.plan = a_product.id, !.type = a_product.type,
                               !.dtv_found = FALSE, !.open = FALSE])

\* Lines 321-329: an option of the next child of the plan is registered.
AddOption ==
    /\ build.kind = "fetching"
    /\ reg.plan # None
    /\ \E option \in Nodes(NodeIds) :
          Register(option, child_plan(reg.plan, option),
                   [reg EXCEPT !.open = TRUE])

\* Lines 315-320 and 331-336: the child is registered after its options.
AddChild ==
    /\ build.kind = "fetching"
    /\ reg.plan # None
    /\ \E product \in Nodes(NodeIds) :
          Register(product, child_plan(reg.plan, product),
                   [reg EXCEPT !.open = FALSE,
                               !.dtv_found = reg.dtv_found
                                             \/ product.type = "dtv"])

\* Lines 337-341: the plan has no more children; a dtv plan with a dtv
\* child ignores its extra sensors.
EndPlan ==
    /\ build.kind = "fetching"
    /\ reg.plan # None
    /\ ~reg.open
    /\ all_products' =
           IF reg.dtv_found /\ reg.type = "dtv"
           THEN [i \in DOMAIN all_products |->
                    IF all_products[i].id = reg.plan
                    THEN [all_products[i] EXCEPT !.ignore = TRUE]
                    ELSE all_products[i]]
           ELSE all_products
    /\ reg' = [reg EXCEPT !.plan = None, !.type = "", !.dtv_found = FALSE]
    /\ UNCHANGED <<new_products, idx, build, product_types, requested,
                   authVars, coordVars, utilVars, costVars, cacheVars>>

\* The upstream lists of n products in which no identifier comes twice:
\* the k-th product has identifier k and belongs to itself or to an
\* earlier plan.
RECURSIVE Registrations(_)
Registrations(n) ==
    IF n = 0
    THEN {<<>>}
    ELSE UNION {{Append(l, x) :
                    x \in [type : Types,
                           plan : {n} \cup {k \in DOMAIN l : l[k].plan = k},
                           priced : BOOLEAN]} :
                l \in Registrations(n - 1)}

\* The catalogs of up to m products that products() registers from such a
\* list; a dtv plan with a dtv child ignores its own extra sensors.
ProductListsUpTo(m) ==
    LET Ignore(l, k) ==
            /\ l[k].type = "dtv"
            /\ \E j \in DOMAIN l : j # k /\ l[j].plan = k /\ l[j].type = "dtv"
    IN {[k \in DOMAIN l |->
            Product(k, l[k].type, l[k].plan, l[k].priced, Ignore(l, k))] :
        l \in UNION {Registrations(n) : n \in 0..m}}

ProductLists == ProductListsUpTo(MaxProducts)

\* self.product_types after the products of the catalog are registered.
RECURSIVE TypesOf(_)
TypesOf(catalog) ==
    IF catalog = <<>>
    THEN <<>>
    ELSE add_product_type(TypesOf(SubSeq(catalog, 1, Len(catalog) - 1)),
                          catalog[Len(catalog)].type)

\* products(), lines 286-344, for an upstream list in which no identifier
\* comes twice, in one step: the products are registered, the
\* subscriptions are fetched and create_extra_sensors starts.  details: a
\* product has a specurl, whose details add_product asks (a price comes
\* from them).
RegisterProducts ==
    /\ build.kind = "fetching"
    /\ reg = RegIdle
    /\ all_products' \in ProductLists
    /\ product_types' = TypesOf(all_products')
    /\ \E details \in BOOLEAN :
          /\ all_products' = <<>> => ~details
          /\ (\E i \in DOMAIN all_products' : all_products'[i].priced)
             => details
          /\ requested' =
                 requested \cup (IF details THEN {"product_details"} ELSE {})
    /\ build' = BuildRunning
    /\ UNCHANGED <<new_products, idx, reg, authVars, coordVars, utilVars, costVars, cacheVars>>

\* One product of the loop of create_extra_sensors with its fetches.
ExtraSensorStep ==
    /\ build.kind = "running"
    /\ idx <= Len(all_products)
    /\ LET p == all_products[idx] IN
       \E absent \in {a \in SUBSET FetchesOf(p.type) : Cardinality(a) <= MaxAbsent},
          key \in IF p.type = "internet" THEN BOOLEAN ELSE {FALSE},
          ndev \in IF p.type = "dtv" THEN 0..MaxDevices ELSE {0},
          bs \in IF p.type = "mobile" THEN SUBSET Buckets ELSE {{}} :
          LET fx == [f \in FetchNames |-> f \notin absent]
              o == extra_sensors(p, fx, key, ndev, bs)
          IN IF o.exc # ""
             THEN /\ build' = BuildRaised(o.exc, o.at)
                  /\ new_products' = <<>>
                  /\ idx' = 1
             ELSE /\ new_products' = Update(new_products, o.sensors)
                  /\ idx' = idx + 1
                  /\ build' = build
    /\ requested' = requested \cup {"product_details"}
    /\ UNCHANGED <<all_products, product_types, reg, authVars, coordVars,
                   utilVars, costVars, cacheVars>>

\* The end of create_extra_sensors: the customer-level products and the
\* merge of the new products into the catalog (lines 1024-1135).  The local
\* new_products is gone when create_extra_sensors returns or raises.
CustomerStep ==
    /\ build.kind = "running"
    /\ idx > Len(all_products)
    /\ \E customer \in BOOLEAN, mailboxes \in BOOLEAN, nmail \in 0..MaxMailboxes :
          IF ~customer
          THEN /\ build' = BuildRaised("AttributeError", "customer")
               /\ UNCHANGED all_products
          ELSE IF ~mailboxes
          THEN /\ build' = BuildRaised("AttributeError", "mailboxesandaliases")
               /\ UNCHANGED all_products
          ELSE /\ build' = BuildDone
               /\ all_products' =
                      Update(all_products,
                             Update(new_products,
                                    customer_sensors(
                                        customer_number(user_details), nmail)))
    /\ new_products' = <<>>
    /\ idx' = 1
    /\ UNCHANGED <<product_types, reg, requested, authVars, coordVars,
                   utilVars, costVars, cacheVars>>

\* Internet lines and modems of the legacy payload.
MaxLines == 2

\* Lines 1491-1658: the usage and, with daily usages, the daily usage of
\* the first n internet lines; the key holds the businessidentifier of the
\* line, the product_identifier does not.
RECURSIVE v1_lines(_, _, _)
v1_lines(cn, n, daily) ==
    IF n = 0
    THEN <<>>
    ELSE v1_lines(cn, n - 1, daily)
         \o <<Unnamed(Sensor(n, "usage", "internet usage", cn))>>
         \o Opt(daily, <<Unnamed(Sensor(n, "usage", "internet daily usage", cn))>>)

\* buildv1 (lines 1443-1775): the catalog of the legacy payload.  lines,
\* modems, ndev: the numbers of internetusage entries, of modems and of
\* devices of the digital tv; the key of the last three kinds starts with
\* the businessidentifier of the last internet line, left out here.
v1_products(cn, accounts, lines, daily, modems, ndev, unbilled, bills) ==
    Opt(accounts, <<Unnamed(Sensor(cn, "customer", "customer", cn))>>)
    \o <<Unnamed(Sensor(cn, "user", "user details", cn))>>
    \o v1_lines(cn, lines, daily)
    \o [i \in 1..modems |-> Unnamed(Sensor(i, "modem", "modem", cn))]
    \o [i \in 1..ndev |-> Sensor(i, "dtv", "device", cn)]
    \o Opt(unbilled, <<Sensor(1, "dtv", "usage", cn)>>)
    \o Opt(bills, <<Unnamed(Sensor(cn, "invoice", "open invoices", cn))>>)

\* What api_v1_call() gives (lines 1431-1441): the sentinel False, a
\* payload without the key customerproductholding, one with an empty and
\* one with a non-empty product holding.
Holdings == {"false", "missing", "empty", "some"}

\* products(), lines 292-300: the product list is absent and the legacy
\* payload is asked for; without a product holding the refresh fails,
\* len() of a missing one raises.  buildv1 asks the details of each
\* internet line (line 1495).
BuildV1 ==
    /\ build.kind = "fetching"
    /\ reg = RegIdle
    /\ \E holding \in Holdings, accounts \in BOOLEAN, lines \in 0..MaxLines,
          details \in BOOLEAN, daily \in BOOLEAN, modems \in 0..MaxLines,
          ndev \in 0..MaxDevices, unbilled \in BOOLEAN, bills \in BOOLEAN :
          IF holding \in {"false", "empty"}
          THEN /\ build' = BuildRaised("TelenetServiceException", "products")
               /\ requested' = requested \cup {"api_v1_call"}
               /\ UNCHANGED all_products
          ELSE IF holding = "missing"
          THEN /\ build' = BuildRaised("TypeError", "products")
               /\ requested' = requested \cup {"api_v1_call"}
               /\ UNCHANGED all_products
          ELSE IF lines > 0 /\ ~details
          THEN /\ build' = BuildRaised("AttributeError", "buildv1")
               /\ requested' = requested \cup {"api_v1_call", "product_details"}
               /\ UNCHANGED all_products
          ELSE IF lines = 0 /\ (ndev > 0 \/ unbilled \/ bills)
          THEN /\ build' = BuildRaised("UnboundLocalError", "internetusage")
               /\ requested' = requested \cup {"api_v1_call"}
               /\ UNCHANGED all_products
          ELSE /\ build' = BuildDoneV1
               /\ requested' =
                      requested \cup {"api_v1_call"}
                      \cup (IF lines > 0 THEN {"product_details"} ELSE {})
               /\ all_products' =
                      Update(all_products,
                             v1_products(customer_number(user_details),
                                         accounts, lines, daily, modems, ndev,
                                         unbilled, bills))
    /\ UNCHANGED <<new_products, idx, product_types, reg, authVars, coordVars,
                   utilVars, costVars, cacheVars>>

InitBuild ==
    /\ requested = {}
    /\ all_products = <<>>
    /\ new_products = <<>>
    /\ idx = 1
    /\ build = BuildIdle
    /\ product_types = <<>>
    /\ reg = RegIdle

\* The catalog is one that a refresh has finished: it holds the user
\* details, which both builds add after the products.
Complete(catalog) ==
    \E i \in DOMAIN catalog :
        catalog[i].extra /\ catalog[i].suffix = "user details"

\* C30: a products() call without force_refresh never returns, as the
\* cached catalog, the products that a failed refresh has registered
\* without their synthetic and customer-level sensors.
C30_NoPartialCatalogServed ==
    build.kind = "cached" => Complete(all_products)

\* C9: no soft absence of an optional per-product fetch makes the catalog
\* build raise; the build of the other products goes on.
C9_SoftAbsenceNeverAborts ==
    build.kind = "raise" => build.at \notin FetchNames

\* C21: the legacy payload is asked for only in a refresh that does not
\* go the primary way; when it is not fetched or has no product holding
\* the refresh raises TelenetServiceException, and a refresh that asks for
\* it asks no per-product endpoint of the primary path.
C21_LegacyOnlyOnSoftAbsence ==
    /\ build.kind = "running" \/ build = BuildDone =>
           "api_v1_call" \notin requested
    /\ build.kind = "raise" /\ build.at = "products" =>
           build.exc = "TelenetServiceException"
    /\ "api_v1_call" \in requested => "product_details" \notin requested

\* The registered products of the catalog (no synthetic sensor, no mailbox).
Registered(catalog) == {i \in DOMAIN catalog : ~catalog[i].extra}

\* The product at i is a plan of type dtv with a child of type dtv.
DtvPlanWithDtvChild(catalog, i) ==
    /\ catalog[i].type = "dtv"
    /\ catalog[i].plan = catalog[i].id
    /\ \E j \in Registered(catalog) :
          /\ catalog[j].id # catalog[i].id
          /\ catalog[j].plan = catalog[i].id
          /\ catalog[j].type = "dtv"

\* The dtv usage and device sensors made from the product with the
\* identifier id.
DtvSensors(catalog, id) ==
    {j \in DOMAIN catalog :
        /\ catalog[j].extra
        /\ catalog[j].id = id
        /\ catalog[j].type = "dtv"
        /\ catalog[j].suffix \in {"usage", "dtv device"}}

AddProductCall == reg'.calls = reg.calls + 1

\* C14: add_product with an identifier of the catalog returns False, makes
\* no upstream request and leaves the catalog and the product types as they
\* are; the catalog never holds two entries for one identifier.
C14_AddProductIdempotent ==
    [][/\ AddProductCall /\ reg'.id \in Ids(all_products) =>
              /\ reg'.ret = FALSE
              /\ reg'.requests = {}
              /\ all_products' = all_products
              /\ product_types' = product_types
              /\ build' = build
       /\ \A i, j \in DOMAIN all_products' :
              /\ ~all_products'[i].extra
              /\ ~all_products'[j].extra
              /\ all_products'[i].id = all_products'[j].id
              => i = j]_vars

\* A second registration of an identifier, with another type than the
\* first, in a catalog of two products.
C14_Witness ==
    /\ build.kind = "fetching"
    /\ reg.id # None
    /\ ~reg.first
    /\ ~reg.ret
    /\ Len(all_products) = 2
    /\ \E i \in DOMAIN all_products :
          all_products[i].id = reg.id /\ all_products[i].plan # reg.plan

\* C20: a product enters the catalog with the identifier (and label) of
\* the plan whose tree products() is in, the plan itself with its own, and
\* no later registration, under another plan or as a plan, changes it.
C20_PlanOfFirstRegistration ==
    [][/\ AddProductCall /\ build'.kind = "fetching"
          /\ reg'.id \notin Ids(all_products) =>
              \E i \in DOMAIN all_products' :
                  /\ all_products'[i].id = reg'.id
                  /\ all_products'[i].plan = reg'.plan
                  /\ reg.plan = None => all_products'[i].plan = reg'.id
       /\ \A i \in DOMAIN all_products :
              i \in DOMAIN all_products' =>
                  /\ all_products'[i].id = all_products[i].id
                  /\ all_products'[i].plan = all_products[i].plan]_vars

\* A product registered as child of a plan is met again as a plan of its
\* own and stays with the plan of its first registration.
C20_Witness ==
    /\ build.kind = "fetching"
    /\ ~reg.first
    /\ reg.plan = reg.id
    /\ \E i \in DOMAIN all_products :
          /\ all_products[i].id = reg.id
          /\ all_products[i].plan # reg.id

NoTwoAlike(catalog) ==
    \A i, j \in DOMAIN catalog :
        product_identifier(catalog[i]) = product_identifier(catalog[j])
        => i = j

\* C15: in the catalog a refresh returns, by the primary or by the legacy
\* path, no two products have the same product_identifier, and a synthetic
\* product has the identifier of its parent followed by its suffix, which
\* is not the identifier of a registered product.
C15_UniqueIdentifiers ==
    build.kind = "done" =>
        /\ NoTwoAlike(all_products)
        /\ \A i, j \in DOMAIN all_products :
               all_products[i].extra /\ ~all_products[j].extra =>
                   /\ all_products[i].suffix # ""
                   /\ product_identifier(all_products[i])
                      # product_identifier(all_products[j])

\* C16: every product of the catalog a successful refresh returns has a
\* plan identifier; a catalog of the primary path holds the current
\* invoice, the user details and the customer, and they and the mailboxes
\* have the customer number of the account as plan identifier, whichever
\* way login() ended.
C16_EveryProductHasPlan ==
    build.kind = "done" =>
        /\ \A i \in DOMAIN all_products : all_products[i].plan # None
        /\ build = BuildDone =>
               /\ \A n \in {"current invoice", "user details", "customer"} :
                      \E i \in DOMAIN all_products :
                          /\ all_products[i].suffix = n
                          /\ all_products[i].plan = CustomerNumber
               /\ \A i \in DOMAIN all_products :
                      all_products[i].type = "mailbox" =>
                          all_products[i].plan = CustomerNumber

(* ------------------- costs of a refresh: self.total_cost --------------- *)

\* Products of a refresh whose costs are followed.
MaxBilled == 3

\* A fetch that returned the sentinel False.
Absent == -1

\* The sales price of a priced product and the out-of-bundle or current
\* usage cost of a usage payload.
Price == 4

Costs == {Absent, 1}

\* What the upstream answers for the product p: the price of its details,
\* its usage (dtv: product_usage with bill cycle and devices; mobile:
\* mobile_usage or the usage of the line in its bundle) and the usage of
\* its bundle, which is asked after the usage of the line.
AnswersFor(p) ==
    {a \in [price : {IF p.priced THEN Price ELSE 0}, usage : Costs,
            bundle : Costs] :
        /\ a.usage # Absent =>
               \/ p.type = "dtv" /\ ~p.ignore
               \/ p.type = "mobile"
        /\ a.bundle # Absent =>
               p.type = "mobile" /\ p.plan # p.id /\ a.usage # Absent}

RECURSIVE AnswersOf(_)
AnswersOf(catalog) ==
    IF catalog = <<>>
    THEN {<<>>}
    ELSE {Append(w, a) :
             w \in AnswersOf(SubSeq(catalog, 1, Len(catalog) - 1)),
             a \in AnswersFor(catalog[Len(catalog)])}

\* construct_extra_sensor with its product_state.
cost_sensor(p, suffix, use_plan_identifier, state) ==
    LET x == construct_extra_sensor(p, suffix, use_plan_identifier)
    IN [id |-> x.id, type |-> x.type, suffix |-> x.suffix, plan |-> x.plan,
        state |-> state]

\* Line 779: self.all_products.get(bundle_key) is None.  The keys of
\* self.all_products are the identifiers of the registered products (line
\* 252) until new_products is merged at line 1134, so the key of a bundle
\* is never found.
bundle_known(catalog, plan_identifier) == FALSE

Costed(total, sensors) == [total |-> total, sensors |-> sensors]

\* Lines 396-408: the price of a priced product.
price_cost(p, a, c) ==
    IF p.priced
    THEN Costed(c.total + a.price,
                Put(c.sensors, cost_sensor(p, "price", FALSE, a.price)))
    ELSE c

\* Lines 686-732: the current usage of a dtv product.
dtv_cost(p, a, c) ==
    IF suppressed(p) \/ a.usage = Absent
    THEN c
    ELSE Costed(c.total + a.usage,
                Put(c.sensors, cost_sensor(p, "usage", FALSE, a.usage)))

\* Lines 749-872 and 927-961: the out-of-bundle cost of the bundle and of
\* the line, or of the line without bundle.
mobile_cost(catalog, p, a, c) ==
    IF p.plan # p.id
    THEN IF a.usage = Absent \/ a.bundle = Absent
         THEN c
         ELSE LET b == IF bundle_known(catalog, p.plan)
                       THEN c
                       ELSE Costed(c.total + a.bundle,
                                   Put(c.sensors,
                                       cost_sensor(p, "out of bundle", TRUE,
                                                   a.bundle)))
              IN Costed(b.total + a.usage,
                        Put(b.sensors,
                            cost_sensor(p, "out of bundle", FALSE, a.usage)))
    ELSE IF a.usage = Absent
         THEN c
         ELSE Costed(c.total + a.usage,
                     Put(c.sensors,
                         cost_sensor(p, "out of bundle", TRUE, a.usage)))

\* One iteration of the loop of create_extra_sensors, for the costs.
product_cost(catalog, p, a, c) ==
    LET priced == price_cost(p, a, c)
    IN CASE p.type = "dtv" -> dtv_cost(p, a, priced)
         [] p.type = "mobile" -> mobile_cost(catalog, p, a, priced)
         [] OTHER -> priced

\* The loop of create_extra_sensors (lines 384-1022) over the first n
\* products of the catalog, from the cost c.
RECURSIVE create_costs(_, _, _, _)
create_costs(catalog, answers, n, c) ==
    IF n = 0
    THEN c
    ELSE product_cost(catalog, catalog[n], answers[n],
                      create_costs(catalog, answers, n - 1, c))

\* Lines 1024-1042: the current invoice.
current_invoice(cn, total) ==
    [id |-> cn, type |-> "invoice", suffix |-> "current invoice", plan |-> cn,
     state |-> total]

reset_cost_Kept(total) == total

\* Line 281: self.total_cost = 0.
reset_cost(total) == 0

Bill(kind, products, answers, sensors) ==
    [kind |-> kind, products |-> products, answers |-> answers,
     sensors |-> sensors]

NoBill == Bill("idle", <<>>, <<>>, <<>>)

\* products(force_refresh=True), lines 280-285: the accumulator is reset
\* and the catalog is emptied.
BeginCosts ==
    /\ bill.kind # "started"
    /\ total_cost' = reset_cost(total_cost)
    /\ bill' = Bill("started", <<>>, <<>>, <<>>)
    /\ UNCHANGED <<authVars, buildVars, coordVars, utilVars, cacheVars>>

\* The rest of products() by the primary path, for the costs: the
\* products are registered, the loop of create_extra_sensors adds the
\* costs and the sensors with a cost are merged into the catalog with the
\* current invoice.
RefreshCosts ==
    /\ bill.kind = "started"
    /\ \E catalog \in ProductListsUpTo(MaxBilled) :
       \E answers \in AnswersOf(catalog) :
          LET c == create_costs(catalog, answers, Len(catalog),
                                Costed(total_cost, <<>>))
          IN /\ total_cost' = c.total
             /\ bill' = Bill("done", catalog, answers,
                             Put(c.sensors,
                                 current_invoice(CustomerNumber, c.total)))
    /\ UNCHANGED <<authVars, buildVars, coordVars, utilVars, cacheVars>>

InitCost ==
    /\ total_cost = 0
    /\ bill = NoBill

\* The sum of f[i] over the elements i of the set.
RECURSIVE SumOver(_, _)
SumOver(set, f) ==
    IF set = {}
    THEN 0
    ELSE LET i == CHOOSE i \in set : TRUE
         IN f[i] + SumOver(set \ {i}, f)

\* The costs of the k-th product of the bill: its price and, when the
\* usages asked for it are all fetched, the current usage or out-of-bundle
\* cost of each of them.
Charges(k) ==
    LET p == bill.products[k]
        a == bill.answers[k]
        line == p.type = "mobile" /\ p.plan # p.id
    IN a.price
       + (IF a.usage # Absent /\ (line => a.bundle # Absent)
          THEN a.usage + (IF line THEN a.bundle ELSE 0)
          ELSE 0)

CostSensors(suffixes) ==
    {i \in DOMAIN bill.sensors : bill.sensors[i].suffix \in suffixes}

C29_InvoiceIsSumOfSensors ==
    bill.kind = "done" =>
        \A i \in CostSensors({"current invoice"}) :
            bill.sensors[i].state =
                SumOver(CostSensors({"price", "usage", "out of bundle"}),
                        [j \in DOMAIN bill.sensors |-> bill.sensors[j].state])

(* ------------- addresses and sim details: self.addresses --------------- *)

\* Versions of the address and of the sim detail the upstream holds.
MaxVersion == 2

Versions == 1..MaxVersion

\* What the address endpoint answers for the addressId of the product: the
\* sentinel False or the address.
AddressAnswers == {Absent} \cup Versions

\* What the simdetails endpoint answers: the sentinel False, a list without
\* the mobile (0) or a list with its sim detail.
SimAnswers == {Absent, 0} \cup Versions

Looked(value, cache, exc) == [value |-> value, cache |-> cache, exc |-> exc]

\* address (lines 1399-1415) for the addressId of the product: an address
\* of self.addresses is returned without a request.
address(cache, answer) ==
    IF cache # None
    THEN Looked(cache, cache, "")
    ELSE IF answer = Absent
    THEN Looked(Absent, cache, "")
    ELSE Looked(answer, answer, "")

\* get_simdetail (lines 1274-1281): the list is fetched while
\* self._simdetails is empty; the sentinel False is neither sized nor
\* iterated.  The value is the sim detail of the mobile or None.
get_simdetail(cache, answer) ==
    IF cache = Absent
    THEN Looked(None, cache, "TypeError")
    ELSE IF cache # 0
    THEN Looked(cache, cache, "")
    ELSE IF answer = Absent
    THEN Looked(None, Absent, "TypeError")
    ELSE Looked(answer, answer, "")

\* What a refresh was given (type and addressId of the product, sims and
\* addr of the upstream) and what it returned.
Served(kind, exc, given, extra, product_address) ==
    [kind |-> kind, exc |-> exc, given |-> given, extra |-> extra,
     product_address |-> product_address]

NotServed ==
    Served("idle", "",
           [mobile |-> FALSE, addressed |-> FALSE, sims |-> 0, addr |-> Absent],
           None, None)

\* products(force_refresh=True) for a catalog of one product: add_product
\* (lines 248-266) takes the extra attributes of a mobile product from
\* get_simdetail and the address of a product with an addressId from
\* address.
RefreshCatalog ==
    /\ \E given \in [mobile : BOOLEAN, addressed : BOOLEAN, sims : SimAnswers,
                     addr : AddressAnswers] :
          LET s == IF given.mobile
                   THEN get_simdetail(_simdetails, given.sims)
                   ELSE Looked(None, _simdetails, "")
              a == IF given.addressed
                   THEN address(addresses, given.addr)
                   ELSE Looked(None, addresses, "")
          IN /\ _simdetails' = s.cache
             /\ IF s.exc # ""
                THEN /\ served' = Served("raise", s.exc, given, None, None)
                     /\ UNCHANGED addresses
                ELSE /\ served' = Served("done", "", given, s.value, a.value)
                     /\ addresses' = a.cache
    /\ UNCHANGED <<authVars, buildVars, coordVars, utilVars, costVars>>

InitCache ==
    /\ addresses = None
    /\ _simdetails = 0
    /\ served = NotServed

\* C26: the sim detail and the address of the product in the catalog a
\* refresh returns are those the upstream holds in this refresh, whatever
\* the client was given in earlier refreshes.
C26_ReplaceTheWorld ==
    served.kind = "done" =>
        /\ served.given.mobile => served.extra = served.given.sims
        /\ served.given.addressed =>
               served.product_address = served.given.addr

(* ---------------- refresh cycle: _async_update_data -------------------- *)

\* Plan identifiers the upstream knows.
MaxPlans == 3

\* Products of one fetched list.
MaxFetched == 2

Plans == 1..MaxPlans

\* A fetched product list, each product given by its plan identifier.
FetchedLists == UNION {[1..n -> Plans] : n \in 0..MaxFetched}

\* What products_refreshed() raises.
ClientExceptions ==
    {"ConnectionError", "TelenetServiceException", "BadCredentialsException",
     "Exception"}

NoData == [none |-> TRUE, list |-> <<>>]

List(l) == [none |-> FALSE, list |-> l]

PlansOf(l) == {l[i] : i \in DOMAIN l}

CycleIdle ==
    [client |-> "", kind |-> "idle", exc |-> "", value |-> NoData,
     removed |-> {}, reloads |-> 0, fetched |-> <<>>, current |-> {},
     previous |-> NoData]

surfaced_Unwrapped(dbg, e) == e

\* Lines 82-100: the exception the cycle raises when the client raised e.
surfaced(dbg, e) == IF dbg THEN e ELSE "UpdateFailed"

CycleRaised(e, exc) ==
    [client |-> e, kind |-> "raise", exc |-> exc, value |-> NoData,
     removed |-> {}, reloads |-> 0, fetched |-> <<>>, current |-> {},
     previous |-> NoData]

\* What a cycle that got the list products did, with what it started from:
\* current, the plans with a device record, and previous, coordinator.data.
CycleReturned(products, current, previous, value, removed, reloads) ==
    [client |-> "ok", kind |-> "return", exc |-> "", value |-> value,
     removed |-> removed, reloads |-> reloads, fetched |-> products,
     current |-> current, previous |-> previous]

stale_products_All(current, fetched_products) == current

\* Line 118: the plans with a device record that were not fetched.
stale_products(current, fetched_products) == current \ fetched_products

has_data_Always(previous) == TRUE

\* Line 131: self.data is neither None nor an empty list.
has_data(previous) == ~previous.none /\ previous.list # <<>>

discovered_AgainstRegistry(previous, current, fetched_products) ==
    fetched_products \ current # {}

\* Lines 131-133: self.data and fetched_products - {plans of self.data};
\* current, the device registry, is not looked at.
discovered(previous, current, fetched_products) ==
    /\ has_data(previous)
    /\ fetched_products \ PlansOf(previous.list) # {}

update_data_EmptyRemoves(products, current, previous) ==
    LET fetched_products == PlansOf(products)
        stale == stale_products(current, fetched_products)
    IN IF discovered(previous, current, fetched_products)
       THEN CycleReturned(products, current, previous, NoData, stale, 1)
       ELSE CycleReturned(products, current, previous, List(products), stale, 0)

\* Lines 104-140 for the fetched list; current: the plans with a device.
update_data(products, current, previous) ==
    IF Len(products) > 0
    THEN LET fetched_products == PlansOf(products)
             stale == stale_products(current, fetched_products)
         IN IF discovered(previous, current, fetched_products)
            THEN CycleReturned(products, current, previous, NoData, stale, 1)
            ELSE CycleReturned(products, current, previous, List(products),
                               stale, 0)
    ELSE CycleReturned(products, current, previous, List(<<>>), {}, 0)

\* One refresh cycle; the host stores what the cycle returns as
\* coordinator.data and keeps the old data when it raises.
Refresh ==
    /\ \/ \E e \in ClientExceptions :
             /\ cycle' = CycleRaised(e, surfaced(debug, e))
             /\ UNCHANGED <<data, registry, reload>>
       \/ \E products \in FetchedLists :
             /\ cycle' = update_data(products, registry, data)
             /\ data' = cycle'.value
             /\ registry' = registry \ cycle'.removed
             /\ reload' = (reload \/ cycle'.reloads > 0)
    /\ UNCHANGED <<debug, authVars, buildVars, utilVars, costVars, cacheVars>>

\* sensor.async_setup_entry: one entity per product of coordinator.data,
\* each with the device of its plan identifier (entity.py).
SetupEntities ==
    /\ ~data.none
    /\ registry' = registry \cup PlansOf(data.list)
    /\ UNCHANGED <<debug, data, reload, cycle, authVars, buildVars, utilVars, costVars, cacheVars>>

\* The scheduled reload runs: async_setup_entry makes a new coordinator.
Reload ==
    /\ reload
    /\ reload' = FALSE
    /\ debug' \in BOOLEAN
    /\ data' = NoData
    /\ cycle' = CycleIdle
    /\ UNCHANGED <<registry, authVars, buildVars, utilVars, costVars, cacheVars>>

InitCoord ==
    /\ debug \in BOOLEAN
    /\ data = NoData
    /\ registry = {}
    /\ reload = FALSE
    /\ cycle = CycleIdle

\* C10 as stated: a cycle whose client raised surfaces UpdateFailed and
\* nothing else, whatever the configuration.
C10_AlwaysUpdateFailed ==
    cycle.kind # "idle" /\ cycle.client # "ok" =>
        /\ cycle.kind = "raise"
        /\ cycle.exc = "UpdateFailed"
        /\ cycle.value = NoData
        /\ cycle.removed = {}
        /\ cycle.reloads = 0

\* C10 amended: a cycle whose client raised surfaces UpdateFailed when debug
\* logging is off and the client's own exception when it is on, and nothing
\* else: no list, no device removed, no reload.
C10_UpdateFailedUnlessDebug ==
    cycle.kind # "idle" /\ cycle.client # "ok" =>
        /\ cycle.kind = "raise"
        /\ cycle.exc = (IF debug THEN cycle.client ELSE "UpdateFailed")
        /\ cycle.value = NoData
        /\ cycle.removed = {}
        /\ cycle.reloads = 0

C10_Witness ==
    /\ ~debug
    /\ cycle.client = "BadCredentialsException"
    /\ cycle.exc = "UpdateFailed"
    /\ registry # {}

\* C11 as stated: in every refresh cycle the device records of the plans
\* that were not fetched are removed and no other device record is: after a
\* cycle the registry holds the former device plans that were fetched.
C11_StaleRemovedEveryCycle ==
    [][Refresh /\ cycle'.kind = "return" =>
           registry' = registry \cap PlansOf(cycle'.fetched)]_vars

\* C11 amended: in every refresh cycle whose fetch yields a non-empty list
\* the device records of the plans that were not fetched are removed and no
\* other device record is, also when the cycle is discarded for a reload.
C11_StaleRemovedWhenFetched ==
    [][Refresh /\ cycle'.kind = "return" /\ cycle'.fetched # <<>> =>
           /\ registry' = registry \cap PlansOf(cycle'.fetched)
           /\ cycle'.removed = registry \ PlansOf(cycle'.fetched)]_vars

\* Previous {A,B}, fetched {A,C}: B is removed, A is kept, the cycle returns
\* no data and a reload is scheduled.
C11_Witness ==
    /\ cycle.kind = "return"
    /\ cycle.reloads = 1
    /\ cycle.value = NoData
    /\ cycle.removed # {}
    /\ cycle.current \cap PlansOf(cycle.fetched) # {}
    /\ registry = cycle.current \cap PlansOf(cycle.fetched)
    /\ reload

\* C12 as stated: a successful cycle returns no data and schedules one
\* reload exactly when a fetched plan is not a plan of the previous
\* coordinator data (no plan at all when there is no data); otherwise it
\* returns the fetched list and schedules no reload.
C12_ReloadIffNewPlan ==
    cycle.kind = "return" =>
        LET before == IF cycle.previous.none
                      THEN {} ELSE PlansOf(cycle.previous.list)
        IN IF PlansOf(cycle.fetched) \ before # {}
           THEN cycle.value = NoData /\ cycle.reloads = 1
           ELSE cycle.value = List(cycle.fetched) /\ cycle.reloads = 0

\* C12 amended: a successful cycle returns no data and schedules one reload
\* exactly when the previous coordinator data is a non-empty list and a
\* fetched plan is not among its plans, whatever the device registry holds;
\* otherwise it returns the fetched list and schedules no reload.
C12_ReloadIffNewPlanAfterData ==
    cycle.kind = "return" =>
        LET before == IF cycle.previous.none
                      THEN {} ELSE PlansOf(cycle.previous.list)
        IN IF before # {} /\ PlansOf(cycle.fetched) \ before # {}
           THEN cycle.value = NoData /\ cycle.reloads = 1
           ELSE cycle.value = List(cycle.fetched) /\ cycle.reloads = 0

\* A reload is scheduled for a plan new to the coordinator data while the
\* registry has no device for a plan of that data.
C12_Witness ==
    /\ cycle.kind = "return"
    /\ cycle.reloads = 1
    /\ reload
    /\ ~cycle.previous.none
    /\ PlansOf(cycle.previous.list) \ cycle.current # {}

\* C13 as stated: a cycle that fetched the empty list returns the empty
\* list, schedules no reload and removes every device record.
C13_EmptyFetchRemovesAll ==
    [][Refresh /\ cycle'.kind = "return" /\ cycle'.fetched = <<>> =>
           /\ cycle'.value = List(<<>>)
           /\ cycle'.reloads = 0
           /\ reload' = reload
           /\ registry' = {}]_vars

\* C13 amended: a cycle that fetched the empty list returns the empty list,
\* schedules no reload and removes no device record.
C13_EmptyFetchRemovesNone ==
    [][Refresh /\ cycle'.kind = "return" /\ cycle'.fetched = <<>> =>
           /\ cycle'.value = List(<<>>)
           /\ cycle'.reloads = 0
           /\ reload' = reload
           /\ cycle'.removed = {}
           /\ registry' = registry]_vars

\* An empty fetch while plans have a device record.
C13_Witness ==
    /\ cycle.kind = "return"
    /\ cycle.fetched = <<>>
    /\ cycle.current # {}
    /\ registry = cycle.current
    /\ data = List(<<>>)

\* C28: a cycle that follows a cycle discarded for new plans, starts from
\* the data that cycle left and fetches the same plans returns the fetched
\* list and schedules no reload; no cycle that starts without data or with
\* an empty list schedules a reload.
C28_ReloadsDoNotRepeat ==
    [][/\ /\ cycle' # cycle
          /\ cycle'.kind = "return"
          /\ cycle.kind = "return"
          /\ cycle.reloads > 0
          /\ data = cycle.value
          /\ PlansOf(cycle'.fetched) = PlansOf(cycle.fetched)
          => /\ cycle'.reloads = 0
             /\ cycle'.value = List(cycle'.fetched)
             /\ reload' = reload
       /\ cycle'.kind = "return" /\ ~has_data(cycle'.previous)
          => cycle'.reloads = 0]_vars

\* The cycle after a discarded one has fetched the same plans while the
\* reload is still to run, and returned them.
C28_Witness ==
    /\ reload
    /\ cycle.kind = "return"
    /\ cycle.previous.none
    /\ cycle.fetched # <<>>
    /\ cycle.value = List(cycle.fetched)
    /\ data = cycle.value

(* ------------------- utilities: clean_ipv6, usage percentage ----------- *)

\* Longest list of a payload.
MaxLen == 3

\* A JSON value: a scalar (str, bool, num, null) with its text v, a list of
\* items, or a dict whose i-th property is names[i] with value items[i].
Json(k, v, names, items) == [k |-> k, v |-> v, names |-> names, items |-> items]

Str(v) == Json("str", v, <<>>, <<>>)

Num(v) == Json("num", v, <<>>, <<>>)

Bool(v) == Json("bool", v, <<>>, <<>>)

Null == Json("null", "", <<>>, <<>>)

Lst(items) == Json("list", "", <<>>, items)

Dict(names, items) == Json("dict", "", names, items)

Scalars == {Str("x"), Num("1"), Bool("true"), Null}

\* An address entry of a device of the network topology.
Address(ipType) ==
    Dict(<<"ipType", "ipAddress">>, <<Str(ipType), Str("address")>>)

\* The lists of address entries and of entries without an address.
AddressLists ==
    UNION {[1..n -> {Address("IPv6"), Address("IPv4"),
                     Dict(<<"name">>, <<Str("x")>>)}] : n \in 0..MaxLen}

\* The payloads given to clean_ipv6: a list of addresses, a topology whose
\* device has a list of addresses, a topology or a list with a scalar.
Payloads ==
    {Lst(l) : l \in AddressLists}
    \cup {Dict(<<"model", "devices">>,
               <<Str("x"), Lst(<<Dict(<<"addresses">>, <<Lst(l)>>)>>)>>) :
          l \in AddressLists}
    \cup {Dict(<<"model", "value">>, <<Str("x"), x>>) : x \in Scalars}
    \cup {Lst(<<x>>) : x \in Scalars}

\* What a call gives: a value, or the exception it raises.
Value(v) == [err |-> "", val |-> v]

Error(e) == [err |-> e, val |-> Null]

\* name in item: a key of a dict, an element of a list, a part of a str.
Has(item, name) ==
    CASE item.k = "dict" -> \E i \in DOMAIN item.names : item.names[i] = name
      [] item.k = "list" -> \E i \in DOMAIN item.items : item.items[i] = Str(name)
      [] OTHER -> item.v = name

\* item[name] of a dict that has the key.
Get(item, name) ==
    item.items[CHOOSE i \in DOMAIN item.names : item.names[i] = name]

Remove(items, at) ==
    [i \in 1..(Len(items) - 1) |-> IF i < at THEN items[i] ELSE items[i + 1]]

RECURSIVE clean_ipv6(_), clean_list(_, _), clean_dict(_, _)

\* Lines 79-86: the loop over enumerate(data) at position idx; del
\* data[idx] moves the later items one place down while the loop goes on
\* at idx + 1.
clean_list(items, at) ==
    IF at > Len(items)
    THEN Value(items)
    ELSE LET item == items[at] IN
         IF item.k \in {"num", "bool", "null"}
         THEN Error("TypeError")
         ELSE IF Has(item, "ipType") /\ Has(item, "ipAddress")
         THEN IF item.k # "dict"
              THEN Error("TypeError")
              ELSE IF Get(item, "ipType") = Str("IPv6")
              THEN clean_list(Remove(items, at), at + 1)
              ELSE clean_list(items, at + 1)
         ELSE LET r == clean_ipv6(item) IN
              IF r.err # ""
              THEN r
              ELSE clean_list([items EXCEPT ![at] = r.val], at + 1)

\* Lines 88-98: the loop over the properties of a dict, at the i-th.
clean_dict(payload, i) ==
    IF i > Len(payload.names)
    THEN Value(payload)
    ELSE LET x == payload.items[i] IN
         IF x.k \in {"bool", "str"} \/ (x.k = "list" /\ x.items = <<>>)
         THEN clean_dict(payload, i + 1)
         ELSE LET r == clean_ipv6(x) IN
              IF r.err # ""
              THEN r
              ELSE clean_dict([payload EXCEPT !.items[i] = r.val], i + 1)

\* clean_ipv6 (utils.py, lines 76-99).  What is not a list is iterated as a
\* dict: a number, a boolean and null are not iterable, a str has no get.
clean_ipv6(payload) ==
    CASE payload.k = "list" ->
            LET r == clean_list(payload.items, 1) IN
            IF r.err # "" THEN r ELSE Value(Lst(r.val))
      [] payload.k = "dict" -> clean_dict(payload, 1)
      [] payload.k = "str" ->
            IF payload.v = "" THEN Value(payload) ELSE Error("AttributeError")
      [] OTHER -> Error("TypeError")

\* Units of a usage record.
Units == {0, 2, 6, 10}

\* product_usage.get(type): the category, totalUsage.units,
\* allocatedUsage.units and extendedUsage.volume.
Usages ==
    [category : {"UNLIMITED", "CAP", "FUP"}, used : Units, allocated : Units,
     extended : Units]

\* A quotient n / d.
Quotient(n, d) == [n |-> n, d |-> d]

\* Lines 458-468: usage_pct, the state of the usage sensor (lines 567-575).
usage_pct(usage) ==
    IF usage.category = "UNLIMITED"
    THEN Value(Quotient(0, 1))
    ELSE IF usage.allocated + usage.extended = 0
    THEN Error("ZeroDivisionError")
    ELSE Value(Quotient(100 * usage.used, usage.allocated + usage.extended))

UtilIdle == [fn |-> "", arg |-> Null, out |-> Value(Null)]

\* Line 642: the network topology is cleaned.
CleanTopology ==
    /\ \E payload \in Payloads :
          util' = [fn |-> "clean_ipv6", arg |-> payload, out |-> clean_ipv6(payload)]
    /\ UNCHANGED <<authVars, buildVars, coordVars, costVars, cacheVars>>

\* Lines 458-468: the usage percentage of an internet product.
UsagePercentage ==
    /\ \E usage \in Usages :
          util' = [fn |-> "usage_pct", arg |-> usage, out |-> usage_pct(usage)]
    /\ UNCHANGED <<authVars, buildVars, coordVars, costVars, cacheVars>>

InitUtil == util = UtilIdle

\* The products the loop of create_extra_sensors meets: a plan of its own
\* or a product of the plan 1, of every type, with or without price; a dtv
\* plan may ignore its extra sensors.
LoopProducts ==
    {Product(2, type, plan, priced, ignore) :
        type \in Types, plan \in {1, 2}, priced \in BOOLEAN,
        ignore \in BOOLEAN}
    \ {x \in [id : {2}, type : Types, plan : {1, 2}, priced : BOOLEAN,
               ignore : {TRUE}, suffix : {""}, extra : {FALSE},
               named : {TRUE}] : x.type # "dtv" \/ x.plan # x.id}

\* One iteration of the loop of create_extra_sensors (lines 384-1022) on
\* an empty new_products: the sensors are put in the dict one after the
\* other (new_products.update).
ExtraSensors ==
    /\ \E p \in LoopProducts :
       \E absent \in {a \in SUBSET FetchesOf(p.type) : Cardinality(a) <= MaxAbsent},
          key \in IF p.type = "internet" THEN BOOLEAN ELSE {FALSE},
          ndev \in IF p.type = "dtv" THEN 0..MaxDevices ELSE {0},
          bs \in IF p.type = "mobile" THEN SUBSET Buckets ELSE {{}} :
          LET fx == [f \in FetchNames |-> f \notin absent]
              o == extra_sensors(p, fx, key, ndev, bs)
          IN util' = [fn |-> "extra_sensors",
                      arg |-> [product |-> p, absent |-> absent,
                               ndev |-> ndev, bs |-> bs],
                      out |-> [exc |-> o.exc, at |-> o.at,
                               sensors |-> Update(<<>>, o.sensors)]]
    /\ UNCHANGED <<authVars, buildVars, coordVars, costVars, cacheVars>>

\* The sensors of the call with the identifier id and a suffix of the set.
SensorsOf(id, suffixes) ==
    {i \in DOMAIN util.out.sensors :
        /\ util.out.sensors[i].id = id
        /\ util.out.sensors[i].suffix \in suffixes}

\* C24: a dtv product that does not ignore its extra sensors and whose
\* bill cycle, usage and device details are fetched gets one usage
\* product and one device product for each of the devices of its device
\* details.
C24_OneProductPerDevice ==
    /\ util.fn = "extra_sensors"
    /\ util.arg.product.type = "dtv"
    /\ ~util.arg.product.ignore
    /\ util.arg.absent = {}
    => /\ Cardinality(SensorsOf(util.arg.product.id, {"usage"})) = 1
       /\ Cardinality(SensorsOf(util.arg.product.id, {"dtv device"}))
          = util.arg.ndev

\* C25: a mobile line whose usage is fetched gets its own out-of-bundle
\* sensor and one sensor of its own for each of its data, text and voice
\* buckets that has a counter above zero, and none for the others.
C25_OneSensorPerBucket ==
    /\ util.fn = "extra_sensors"
    /\ util.arg.product.type = "mobile"
    /\ util.arg.absent = {}
    => /\ Cardinality(SensorsOf(util.arg.product.id, {"out of bundle"})) = 1
       /\ Cardinality(SensorsOf(util.arg.product.id, {"data", "sms", "voice"}))
          = Cardinality(util.arg.bs)

\* The elements clean_ipv6 is to remove.
IsIPv6(item) ==
    /\ item.k = "dict"
    /\ Has(item, "ipType")
    /\ Has(item, "ipAddress")
    /\ Get(item, "ipType") = Str("IPv6")

\* data without its IPv6 elements, at every depth.
RECURSIVE Scrubbed(_)
Scrubbed(payload) ==
    CASE payload.k = "list" ->
            LET Keep(item) == ~IsIPv6(item)
                kept == SelectSeq(payload.items, Keep)
            IN Lst([i \in DOMAIN kept |-> Scrubbed(kept[i])])
      [] payload.k = "dict" ->
            Dict(payload.names, [i \in DOMAIN payload.items |-> Scrubbed(payload.items[i])])
      [] OTHER -> payload

\* C17: what clean_ipv6 returns is its argument without the elements that
\* have an ipAddress and the ipType IPv6, at every depth and in every list,
\* the other elements in their order.
C17_EveryIPv6Removed ==
    util.fn = "clean_ipv6" /\ util.out.err = "" =>
        util.out.val = Scrubbed(util.arg)

\* The scalars of a are in b, each where it was.
RECURSIVE ScalarsKept(_, _)
ScalarsKept(a, b) ==
    CASE a.k = "dict" ->
            /\ b.k = "dict"
            /\ b.names = a.names
            /\ \A i \in DOMAIN a.items : ScalarsKept(a.items[i], b.items[i])
      [] a.k = "list" ->
            /\ b.k = "list"
            /\ \A i \in DOMAIN a.items :
                  a.items[i] \in Scalars =>
                      \E j \in DOMAIN b.items : b.items[j] = a.items[i]
      [] OTHER -> b = a

\* C18: clean_ipv6 ends without error on every payload, and every scalar
\* (string, boolean, number, null) of the payload is in the result.
C18_ScalarsUntouched ==
    util.fn = "clean_ipv6" =>
        /\ util.out.err = ""
        /\ ScalarsKept(util.arg, util.out.val)

\* C19: the usage percentage is 0 for the category UNLIMITED and
\* 100 * used / (allocated + extended) otherwise, and it is a value for
\* every usage record.
C19_UsagePercentage ==
    util.fn = "usage_pct" =>
        /\ util.out.err = ""
        /\ IF util.arg.category = "UNLIMITED"
           THEN util.out.val.n = 0
           ELSE util.out.val.n * (util.arg.allocated + util.arg.extended)
                = 100 * util.arg.used * util.out.val.d

(* ---------------------------- specifications --------------------------- *)

Init == InitAuth /\ InitBuild /\ InitCoord /\ InitUtil /\ InitCost /\ InitCache
        /\ ~debug

Next ==
    \/ CallRequest
    \/ CallLogin
    \/ Exchange
    \/ ResumeRequest
    \/ ResumeLogin

Spec == Init /\ [][Next]_vars

NextBuild ==
    \/ BeginRefresh
    \/ RegisterProducts
    \/ ExtraSensorStep
    \/ CustomerStep
    \/ BuildV1
    \/ CachedProducts

SpecBuild == Init /\ [][NextBuild]_vars

NextRegister ==
    \/ BeginRefresh
    \/ AddPlan
    \/ AddOption
    \/ AddChild
    \/ EndPlan

SpecRegister == Init /\ [][NextRegister]_vars

InitRefresh ==
    InitAuth /\ InitBuild /\ InitCoord /\ InitUtil /\ InitCost /\ InitCache

NextRefresh ==
    \/ Refresh
    \/ SetupEntities
    \/ Reload

SpecRefresh == InitRefresh /\ [][NextRefresh]_vars

NextUtil ==
    \/ CleanTopology
    \/ UsagePercentage

SpecUtil == Init /\ [][NextUtil]_vars

NextSensors == ExtraSensors

NextCost ==
    \/ BeginCosts
    \/ RefreshCosts

SpecCost == Init /\ [][NextCost]_vars

NextCache == RefreshCatalog

SpecCache == Init /\ [][NextCache]_vars

SpecSensors == Init /\ [][NextSensors]_vars

(* ------------------- properties of request() and login() --------------- *)

\* A step in which the innermost request frame does its HTTP exchange.
Exchanging ==
    /\ stack # <<>>
    /\ Top(stack).fn = "request"
    /\ Top(stack).pc = "send"
    /\ resp' # NoResp

\* A step in which a login frame gets the answer of one of its requests.
LoginResuming(pc) ==
    /\ stack # <<>>
    /\ Top(stack).fn = "login"
    /\ Top(stack).pc = pc
    /\ ret # NoVal
    /\ resp' = NoResp

ReturnsFalse == stack' = Pop(stack) /\ ret' = FalseVal /\ result'.kind # "raise"

RaisesExc(exc) == stack' = <<>> /\ result'.kind = "raise" /\ result'.exc = exc

\* C1: a request is re-sent at most CONNECTION_RETRY (5) times after
\* re-authentication, and the call ends with TelenetServiceException, never
\* by running out of stack.
C1_RetryBudget ==
    /\ \A i \in DOMAIN stack :
          stack[i].fn = "request" =>
              CONNECTION_RETRY - stack[i].left <= CONNECTION_RETRY
    /\ ~(result.kind = "raise" /\ result.exc = "RecursionError")

\* C2 as stated: with an expected status, a 403 whose body has the code
\* OCAPI-ERR-667 returns False and a 403 with any other code raises
\* TelenetServiceException carrying the cause.
C2_Forbidden667IsSoft ==
    [][(Exchanging /\ Top(stack).expected # None /\ resp'.status = 403
          /\ resp'.body \in {"code667", "codeOther"})
       => IF resp'.body = "code667"
          THEN ReturnsFalse
          ELSE RaisesExc("TelenetServiceException") /\ result'.msg = "cause"]_vars

\* C2 amended: with an expected status, a 403 whose body has a code other
\* than OCAPI-ERR-667 returns False without raising, and a 403 whose code is
\* OCAPI-ERR-667 raises TelenetServiceException carrying the cause.
C2_ForbiddenOtherIsSoft ==
    [][(Exchanging /\ Top(stack).expected # None /\ resp'.status = 403
          /\ resp'.body \in {"code667", "codeOther"})
       => IF resp'.body = "codeOther"
          THEN ReturnsFalse
          ELSE RaisesExc("TelenetServiceException") /\ result'.msg = "cause"]_vars

C2_Witness ==
    /\ resp.status = 403
    /\ resp.body = "codeOther"
    /\ ret = FalseVal
    /\ result.kind # "raise"

C4_HeaderFollowsCookie ==
    [][(stack # <<>> /\ Top(stack).fn = "request" /\ stack' = Pop(stack)
          /\ ret' # NoVal)
       => header' = cookie']_vars

\* C5: login() fetches the challenge at most CONNECTION_RETRY (5) times
\* after the first fetch: a login frame in its challenge loop has counted at
\* most 5 fetches when it sends the next one.
C5_ChallengeBudget ==
    \A i \in DOMAIN stack :
        (stack[i].fn = "login" /\ stack[i].pc = "challenge" /\ i < Len(stack))
            => stack[i].count <= CONNECTION_RETRY

\* C6: a step raises BadCredentialsException exactly when login() got a
\* credentials-form response whose URL has "authentication_error" or user
\* details without "customer_number"; the exception ends every call in
\* progress (no further request) and leaves user_details as it was.
C6_BadCredentials ==
    [][LET failed ==
             \/ /\ LoginResuming("form")
                /\ ret.kind = "response"
                /\ ret.url = "authentication_error"
             \/ /\ LoginResuming("details")
                /\ ret.kind = "response"
                /\ ret.body = "nocust"
       IN /\ failed <=> (stack # <<>> /\ RaisesExc("BadCredentialsException"))
          /\ failed => user_details' = user_details]_vars

C6_Witness ==
    /\ result = Raised("BadCredentialsException", "")
    /\ stack = <<>>
    /\ user_details = "cust"

\* C7: an authorize answer that is not HTTP 200 on a URL with "openid/login"
\* makes login() fail with TelenetServiceException, the form never sent.
C7_AuthorizeFailsAsService ==
    [][(LoginResuming("authorize")
          /\ ~(ret.kind = "response" /\ ret.status = 200
                /\ ret.url = "openid/login"))
       => RaisesExc("TelenetServiceException")]_vars

UrlOf(pc) ==
    CASE pc = "challenge" -> "userdetails"
      [] pc = "authorize" -> "authorize"
      [] pc = "form" -> "login.do"
      [] OTHER -> "userdetails"

\* C8: a first userdetails poll answering 200 makes login() return at once,
\* and a login frame sends its requests in the order userdetails (answered
\* 401/403), authorize, login.do, userdetails.
C8_LoginOrder ==
    /\ [](\A i \in DOMAIN stack :
            (stack[i].fn = "login" /\ i < Len(stack)) =>
                /\ stack[i + 1].fn = "request"
                /\ stack[i + 1].url = UrlOf(stack[i].pc))
    /\ [][/\ (LoginResuming("challenge") /\ Top(stack).count = 0
               /\ ret.kind = "response" /\ ret.status = 200)
              => (stack' = Pop(stack) /\ ret'.kind = "json")
          /\ \A i \in DOMAIN stack' :
                stack'[i].fn = "login" =>
                    IF i \in DOMAIN stack /\ stack[i].fn = "login"
                    THEN \/ stack'[i].pc = stack[i].pc
                         \/ /\ stack[i].pc = "challenge"
                            /\ stack'[i].pc = "authorize"
                            /\ ret.status \in {401, 403}
                         \/ stack[i].pc = "authorize" /\ stack'[i].pc = "form"
                         \/ stack[i].pc = "form" /\ stack'[i].pc = "details"
                    ELSE stack'[i].pc = "challenge"]_vars

C8_Witness ==
    /\ stack = <<>>
    /\ result = Returned(JsonVal(NoVal))
    /\ ret.status = 200
    /\ user_details = "empty"

====
